---- MODULE Spec2Model ----
(***************************************************************************)
(* oak-mcp: the search tool of src/oak_mcp/main.py                         *)
(* (search_ontology_with_oak) and the detail tool get_term_details that    *)
(* the test-suite imports from the same module.                            *)
(*                                                                         *)
(* Strings the program takes apart (identifiers, namespaces, selectors)    *)
(* are sequences of one-character strings, so that splitting at ':',       *)
(* lower-casing and prefixing are computed.  An optional Python value is a *)
(* sequence of length 0 (None) or 1 (the value).                           *)
(***************************************************************************)
EXTENDS Integers, Sequences, FiniteSets, TLC

VARIABLES backend, pc, args, adapter, results, calls, outcome

vars == <<backend, pc, args, adapter, results, calls, outcome>>

(***************************************************************************)
(* Bounds of the model.                                                    *)
(***************************************************************************)
MaxHits == 2      \* longest sequence basic_search returns for "diabetes"
MaxLimit == 2     \* largest n a caller passes
MaxNeg == 1       \* a caller passes n down to -MaxNeg

Slots == {"a", "b"}           \* invocations that can be in flight together
Terms == {"diabetes", "brain"}

Absent == <<>>
Some(x) == <<x>>

Min(a, b) == IF a <= b THEN a ELSE b
Max(a, b) == IF a >= b THEN a ELSE b

(***************************************************************************)
(* Term identifiers known to the model's backends: one with an upper-case  *)
(* prefix, one without any ':', one with two ':' and no label.             *)
(***************************************************************************)
IdMondo == <<"M", "O", ":", "1">>
IdBare == <<"b", "r", "1">>
IdInvalid == <<"N", "o", ":", "9", ":", "z">>
Ids == {IdMondo, IdBare, IdInvalid}
HitIds == {IdMondo, IdBare}

NsMondo == <<"m", "o">>
SelOlsMondo == <<"o", "l", "s", ":", "m", "o">>
\* what a caller passes as `ontology`: nothing, a bare name, a full selector
OntologyArgs == {Absent, Some(NsMondo), Some(SelOlsMondo)}
Limits == (0 - MaxNeg)..MaxLimit

(***************************************************************************)
(* The backend (oaklib adapter and the service behind it).  It is chosen   *)
(* once and never changes: where it fails and how, and what basic_search   *)
(* yields for each text.                                                   *)
(***************************************************************************)
Exceptions == {"ValueError", "URLError"}
BackendCalls == {"get_adapter", "basic_search", "labels"}
NoFault == [at |-> "nowhere", exc |-> "none"]
Faults == {NoFault} \cup [at : BackendCalls, exc : Exceptions]

SeqsUpTo(S, n) == UNION {[1..k -> S] : k \in 0..n}
Hits == SeqsUpTo(HitIds, MaxHits)
\* "brain" matches nothing or the one term labelled so
RareHits == {<<>>, <<IdBare>>}
HitTables == {h \in [Terms -> Hits] : h["brain"] \in RareHits}
Backends == [fault : Faults, hits : HitTables]

\* outcome of one backend call: "ok" or the exception class it raises
CallResult(b, name) == IF b.fault.at = name THEN b.fault.exc ELSE "ok"

\* adapter.label(curie): a label or None
BackendLabel(id) ==
    CASE id = IdMondo -> Some("diabetes mellitus")
      [] id = IdBare -> Some("brain")
      [] OTHER -> Absent

(***************************************************************************)
(* search_ontology_with_oak, line by line.                                 *)
(***************************************************************************)
\* line 55: the `ontology` argument is what get_adapter receives
Selector(ontology) == ontology

\* line 57: adapter.labels(results) yields (curie, label) per curie, in order
LabelPairs(ids) == [k \in 1..Len(ids) |-> <<ids[k], BackendLabel(ids[k])>>]

\* Python's `a or b` on two classes: a class is truthy, so the first operand
Truthy(cls) == cls \in Exceptions
PyOr(a, b) == IF Truthy(a) THEN a ELSE b

\* line 58: except ValueError or urllib.error.URLError
CaughtClass == PyOr("ValueError", "URLError")
Caught(exc) == exc = CaughtClass

PyNone == [type |-> "NoneType"]
PyList(s) == [type |-> "list", items |-> s]
Return(v) == [kind |-> "return", value |-> v]
Raise(exc) == [kind |-> "raise", exc |-> exc]

\* lines 58-60: the handler returns None; anything else leaves the function
OnException(exc) == IF Caught(exc) THEN Return(PyNone) ELSE Raise(exc)

\* s[:n]
PySlice(s, n) ==
    IF n >= 0 THEN SubSeq(s, 1, Min(n, Len(s)))
    ELSE SubSeq(s, 1, Max(0, Len(s) + n))

TruncateLast(s, n) == IF n # 0 THEN SubSeq(s, Max(1, Len(s) - n + 1), Len(s)) ELSE s
TruncateAlways(s, n) == PySlice(s, n)
TruncatePositive(s, n) == IF n > 0 THEN PySlice(s, n) ELSE s

\* lines 61-62: if n: results = list(results)[:n]
Truncate(s, n) == IF n # 0 THEN PySlice(s, n) ELSE s

NextPcRetry(at, r) ==
    IF r # "ok" THEN at
    ELSE CASE at = "get_adapter" -> "basic_search"
           [] at = "basic_search" -> "labels"
           [] OTHER -> "done"

\* where the invocation continues after a backend call
NextPc(at, r) ==
    IF r # "ok" THEN "done"
    ELSE CASE at = "get_adapter" -> "basic_search"
           [] at = "basic_search" -> "labels"
           [] OTHER -> "done"

Call(name, arg, r, response) ==
    [name |-> name, arg |-> arg, result |-> r, response |-> response]

\* a module-level variable, the same for every invocation
Global(var, i) == var["a"]

\* a local variable of invocation i
Local(var, i) == var[i]

Init ==
    /\ backend \in Backends
    /\ pc = [i \in Slots |-> "idle"]
    /\ args = [i \in Slots |-> Absent]
    /\ adapter = [i \in Slots |-> Absent]
    /\ results = [i \in Slots |-> <<>>]
    /\ calls = [i \in Slots |-> <<>>]
    /\ outcome = [i \in Slots |-> Absent]

\* the runtime calls the tool: search_ontology_with_oak(term, ontology, n)
Invoke(i) ==
    /\ pc[i] = "idle"
    /\ \E t \in Terms, o \in OntologyArgs, n \in Limits :
          args' = [args EXCEPT ![i] =
                      Some([op |-> "search", term |-> t, ontology |-> o, n |-> n])]
    /\ pc' = [pc EXCEPT ![i] = "get_adapter"]
    /\ UNCHANGED <<backend, adapter, results, calls, outcome>>

\* line 55 (and 58-60 when it raises)
GetAdapter(i) ==
    /\ pc[i] = "get_adapter"
    /\ LET sel == Selector(args[i][1].ontology)
           r == CallResult(backend, "get_adapter")
       IN /\ calls' = [calls EXCEPT ![i] =
                          Append(@, Call("get_adapter", sel, r, <<>>))]
          /\ adapter' = [adapter EXCEPT ![i] = IF r = "ok" THEN Some(sel) ELSE @]
          /\ outcome' = [outcome EXCEPT ![i] =
                            IF r = "ok" THEN @ ELSE Some(OnException(r))]
          /\ pc' = [pc EXCEPT ![i] = NextPc("get_adapter", r)]
    /\ UNCHANGED <<backend, args, results>>

\* line 56 (and 58-60 when it raises)
BasicSearch(i) ==
    /\ pc[i] = "basic_search"
    /\ LET term == args[i][1].term
           r == CallResult(backend, "basic_search")
           found == IF r = "ok" THEN backend.hits[term] ELSE <<>>
       IN /\ calls' = [calls EXCEPT ![i] =
                          Append(@, Call("basic_search", term, r, found))]
          /\ results' = [results EXCEPT ![i] = IF r = "ok" THEN found ELSE @]
          /\ outcome' = [outcome EXCEPT ![i] =
                            IF r = "ok" THEN @ ELSE Some(OnException(r))]
          /\ pc' = [pc EXCEPT ![i] = NextPc("basic_search", r)]
    /\ UNCHANGED <<backend, args, adapter>>

\* line 57, then lines 61-67 (or 58-60 when it raises)
Labels(i) ==
    /\ pc[i] = "labels"
    /\ LET ids == Local(results, i)
           r == CallResult(backend, "labels")
           pairs == IF r = "ok" THEN LabelPairs(ids) ELSE <<>>
           n == args[i][1].n
       IN /\ calls' = [calls EXCEPT ![i] = Append(@, Call("labels", ids, r, pairs))]
          /\ results' = [results EXCEPT ![i] =
                            IF r = "ok" THEN Truncate(pairs, n) ELSE @]
          /\ outcome' = [outcome EXCEPT ![i] =
                            IF r = "ok" THEN Some(Return(PyList(Truncate(pairs, n))))
                            ELSE Some(OnException(r))]
          /\ pc' = [pc EXCEPT ![i] = NextPc("labels", r)]
    /\ UNCHANGED <<backend, args, adapter>>

\* the runtime has taken the result; the invocation's frame is gone
Release(i) ==
    /\ pc[i] = "done"
    /\ pc' = [pc EXCEPT ![i] = "idle"]
    /\ args' = [args EXCEPT ![i] = Absent]
    /\ adapter' = [adapter EXCEPT ![i] = Absent]
    /\ results' = [results EXCEPT ![i] = <<>>]
    /\ calls' = [calls EXCEPT ![i] = <<>>]
    /\ outcome' = [outcome EXCEPT ![i] = Absent]
    /\ UNCHANGED backend

Next ==
    \E i \in Slots :
        \/ Invoke(i)
        \/ GetAdapter(i)
        \/ BasicSearch(i)
        \/ Labels(i)
        \/ Release(i)

Spec == Init /\ [][Next]_vars

(***************************************************************************)
(* get_term_details.  oak_mcp/main.py as given holds no such function; the *)
(* tests import it from there.  It is modelled from spec.md 4.3 and 7.     *)
(***************************************************************************)
BackendPrefix == <<"o", "l", "s", ":">>
Unknown == <<"u", "n", "k", "n", "o", "w", "n">>

LowerChar(c) ==
    CASE c = "M" -> "m"
      [] c = "O" -> "o"
      [] c = "N" -> "n"
      [] OTHER -> c
Lower(s) == [k \in 1..Len(s) |-> LowerChar(s[k])]

HasColon(s) == \E k \in 1..Len(s) : s[k] = ":"
FirstColon(s) == CHOOSE k \in 1..Len(s) : s[k] = ":" /\ \A j \in 1..(k - 1) : s[j] # ":"

\* 4.2 step 5 and 4.3 step 1: the text before the first ':', lower-cased;
\* else the caller's namespace when given; else "unknown"
DeriveNamespace(id, namespace) ==
    IF HasColon(id) THEN Lower(SubSeq(id, 1, FirstColon(id) - 1))
    ELSE IF namespace # Absent THEN namespace[1]
    ELSE Unknown

\* 4.3 step 2: backend-prefix + derived namespace, empty for all namespaces
DetailSelector(id) ==
    BackendPrefix \o (IF HasColon(id) THEN DeriveNamespace(id, Absent) ELSE <<>>)

\* adapter.definition(id) and adapter.aliases(id): what a backend can answer
Definitions == {Absent, Some("a metabolic disease")}
Unsupported == [supported |-> FALSE]
Supported(names) == [supported |-> TRUE, names |-> names]
AliasAnswers == {Unsupported, Supported(<<>>), Supported(<<"sugar diabetes">>)}

\* the message template with the identifier spliced in
NotFoundMsg(id) == <<"Term '", id, "' not found or does not exist">>
ErrorRecord(msg) == [error |-> msg]

\* 4.3 step 6: unsupported alias lookup gives the empty sequence
Synonyms(al) == IF al.supported THEN al.names ELSE <<>>

TermDetailsStrict(id, r, lab, def, al) ==
    IF r # "ok" THEN ErrorRecord(<<"backend unavailable", r>>)
    ELSE IF lab = Absent THEN ErrorRecord(NotFoundMsg(id))
    ELSE IF ~al.supported THEN ErrorRecord(<<"aliases unsupported", id>>)
    ELSE [term_id |-> id, label |-> lab[1], definition |-> def,
          synonyms |-> Synonyms(al), namespace |-> DeriveNamespace(id, Absent)]

TermDetailsLenient(id, r, lab, def, al) ==
    IF r # "ok" THEN ErrorRecord(<<"backend unavailable", r>>)
    ELSE IF lab = Absent /\ def = Absent THEN ErrorRecord(NotFoundMsg(id))
    ELSE [term_id |-> id, label |-> lab, definition |-> def,
          synonyms |-> Synonyms(al), namespace |-> DeriveNamespace(id, Absent)]

\* 4.3 steps 3-7: the record the handler returns
TermDetails(id, r, lab, def, al) ==
    IF r # "ok" THEN ErrorRecord(<<"backend unavailable", r>>)
    ELSE IF lab = Absent THEN ErrorRecord(NotFoundMsg(id))
    ELSE [term_id |-> id, label |-> lab[1], definition |-> def,
          synonyms |-> Synonyms(al), namespace |-> DeriveNamespace(id, Absent)]

\* the backend calls of one get_term_details, in order
DetailCalls(id, r, lab, def, al) ==
    <<Call("get_adapter", Some(DetailSelector(id)), r, <<>>)>>
    \o (IF r = "ok" THEN <<Call("label", id, "ok", lab)>> ELSE <<>>)
    \o (IF r = "ok" /\ lab # Absent
        THEN <<Call("definition", id, "ok", def),
               Call("aliases", id, IF al.supported THEN "ok" ELSE "unsupported", al)>>
        ELSE <<>>)

\* the runtime calls get_term_details(id); `env` is what the backend holds
\* for id besides its label
GetTermDetails(i) ==
    /\ pc[i] = "idle"
    /\ \E id \in Ids, def \in Definitions, al \in AliasAnswers :
          LET r == CallResult(backend, "get_adapter")
              lab == BackendLabel(id)
          IN /\ args' = [args EXCEPT ![i] =
                            Some([op |-> "get_term_details", term_id |-> id,
                                  env |-> [definition |-> def, aliases |-> al]])]
             /\ calls' = [calls EXCEPT ![i] = DetailCalls(id, r, lab, def, al)]
             /\ outcome' = [outcome EXCEPT ![i] =
                               Some(Return(TermDetails(id, r, lab, def, al)))]
    /\ pc' = [pc EXCEPT ![i] = "done"]
    /\ UNCHANGED <<backend, adapter, results>>

NextDetails ==
    \E i \in Slots :
        \/ GetTermDetails(i)
        \/ Release(i)

SpecDetails == Init /\ [][NextDetails]_vars

(***************************************************************************)
(* Properties.                                                             *)
(***************************************************************************)
Arg(i) == args[i][1]
SearchDone(i) == pc[i] = "done" /\ Arg(i).op = "search"
Returned(i) == outcome[i][1]
\* the invocation got all three backend answers
Answered(i) == SearchDone(i) /\ Len(calls[i]) = 3 /\ calls[i][3].result = "ok"

\* C1: when get_adapter rejects the selector (ValueError: unknown or
\* unresolvable namespace) the search returns the list [], not None.
C1_RejectedSelectorReturnsEmptyList ==
    \A i \in Slots :
        (SearchDone(i) /\ calls[i][1].result = "ValueError")
            => Returned(i) = Return(PyList(<<>>))

\* C2: whatever backend call fails, and however, the search ends by
\* returning a value; no exception leaves the handler.
C2_NoThrowUpward ==
    \A i \in Slots : SearchDone(i) => Returned(i).kind = "return"

\* C3: for n > 0 the result is the first min(n, length) entries of the
\* backend's sequence, in the backend's order.
C3_PrefixOfBackendOrder ==
    \A i \in Slots :
        (Answered(i) /\ Arg(i).n > 0) =>
            LET found == calls[i][2].response
                pairs == calls[i][3].response
                out == Returned(i)
            IN /\ out.kind = "return"
               /\ out.value.type = "list"
               /\ Len(out.value.items) = Min(Arg(i).n, Len(pairs))
               /\ Len(out.value.items) <= Arg(i).n
               /\ \A k \in 1..Len(out.value.items) :
                     /\ out.value.items[k] = pairs[k]
                     /\ out.value.items[k][1] = found[k]

C3_Witness ==
    \E i \in Slots :
        /\ Answered(i)
        /\ Arg(i).n = 1
        /\ Len(calls[i][3].response) = 2
        /\ calls[i][3].response[1] # calls[i][3].response[2]
        /\ Returned(i) = Return(PyList(<<calls[i][3].response[1]>>))

\* C4: n = 0 truncates nothing: the result is the backend's whole sequence,
\* in the backend's order.
C4_ZeroMeansUnlimited ==
    \A i \in Slots :
        (Answered(i) /\ Arg(i).n = 0) =>
            /\ Returned(i) = Return(PyList(calls[i][3].response))
            /\ Len(Returned(i).value.items) = Len(calls[i][2].response)

C4_Witness ==
    \E i \in Slots :
        /\ Answered(i)
        /\ Arg(i).n = 0
        /\ Len(calls[i][3].response) = 2
        /\ Len(Returned(i).value.items) = 2

\* C8: against the unchanged backend the result of a search is a function
\* of its arguments: two finished invocations with the same arguments hold
\* the same ordered result, whatever ran before or between them.
C8_HistoryIndependent ==
    \A i, j \in Slots :
        (SearchDone(i) /\ SearchDone(j) /\ Arg(i) = Arg(j))
            => outcome[i] = outcome[j]

C8_Witness ==
    \E i, j \in Slots :
        /\ i # j
        /\ Answered(i) /\ Answered(j)
        /\ Arg(i) = Arg(j)
        /\ Len(Returned(i).value.items) = 2
        /\ Returned(i) = Returned(j)

\* C10: per invocation get_adapter is called exactly once and first,
\* basic_search at most once and only after get_adapter succeeded, a failed
\* call is the last call of the invocation, and every finished invocation
\* made its own calls (its answer is the backend's, not a kept one).
C10_CallProtocol ==
    \A i \in Slots :
        LET cs == calls[i]
            N(name) == Cardinality({k \in 1..Len(cs) : cs[k].name = name})
        IN /\ Len(cs) >= 1 => cs[1].name = "get_adapter"
           /\ N("get_adapter") <= 1
           /\ N("basic_search") <= 1
           /\ \A k \in 1..Len(cs) :
                 /\ cs[k].name = "basic_search" =>
                       k = 2 /\ cs[1].result = "ok"
                 /\ cs[k].result # "ok" => k = Len(cs)
           /\ pc[i] \in {"basic_search", "labels", "done"} => N("get_adapter") = 1
           /\ (pc[i] = "done" /\ cs[Len(cs)].result # "ok")
                 => ~ENABLED (GetAdapter(i) \/ BasicSearch(i) \/ Labels(i))
           /\ Answered(i) =>
                 /\ cs[2].name = "basic_search"
                 /\ cs[2].response = backend.hits[Arg(i).term]
                 /\ cs[3].name = "labels"

C10_Witness ==
    \E i, j \in Slots :
        /\ i # j
        /\ SearchDone(i) /\ SearchDone(j)
        /\ Arg(i) = Arg(j)
        /\ Len(calls[i]) = 2 /\ calls[i][2].result # "ok"
        /\ calls[j] = calls[i]

\* C5: every element of a search result is a triple (identifier, namespace,
\* label); the namespace is the identifier's text before its first ':',
\* lower-cased, else the caller's namespace argument, else "unknown".
C5_ResultsAreNamespaceTriples ==
    \A i \in Slots :
        (Answered(i) /\ Returned(i).kind = "return") =>
            \A k \in 1..Len(Returned(i).value.items) :
                LET e == Returned(i).value.items[k]
                IN /\ Len(e) = 3
                   /\ e[1] = calls[i][2].response[k]
                   /\ e[2] = DeriveNamespace(e[1], Arg(i).ontology)
                   /\ e[3] = BackendLabel(e[1])

\* C9: the selector get_adapter receives from a search is the backend prefix
\* followed by the caller's namespace, or by nothing when none was given.
C9_SelectorIsPrefixed ==
    \A i \in Slots :
        (pc[i] # "idle" /\ Arg(i).op = "search" /\ Len(calls[i]) >= 1) =>
            calls[i][1].arg =
                Some(BackendPrefix \o (IF Arg(i).ontology = Absent THEN <<>>
                                       ELSE Arg(i).ontology[1]))

DetailsDone(i) == pc[i] = "done" /\ Arg(i).op = "get_term_details"
\* the label lookup was made, and what it answered
LabelAnswer(i) == calls[i][2].response
LabelAsked(i) == DetailsDone(i) /\ Len(calls[i]) >= 2 /\ calls[i][2].name = "label"

\* C6: when the label lookup answers nothing, get_term_details returns the
\* record {error: "Term '<id>' not found or does not exist"} with the exact
\* argument spliced in, whatever definition and aliases the backend holds;
\* the record has the error key only and nothing is raised.
C6_NoLabelIsNotFound ==
    \A i \in Slots :
        (LabelAsked(i) /\ LabelAnswer(i) = Absent) =>
            /\ Returned(i).kind = "return"
            /\ DOMAIN Returned(i).value = {"error"}
            /\ Returned(i).value.error =
                  <<"Term '", Arg(i).term_id, "' not found or does not exist">>

C6_Witness ==
    \E i \in Slots :
        /\ LabelAsked(i) /\ LabelAnswer(i) = Absent
        /\ Arg(i).term_id = IdInvalid
        /\ Arg(i).env.definition # Absent
        /\ Arg(i).env.aliases = Supported(<<"sugar diabetes">>)
        /\ "error" \in DOMAIN Returned(i).value

\* C7: when the label lookup answers, get_term_details returns a record with
\* exactly the keys term_id, label, definition, synonyms, namespace (no error
\* key), term_id is the argument, and synonyms is the backend's aliases, or
\* the empty sequence when alias lookup is unsupported.
C7_SuccessRecordShape ==
    \A i \in Slots :
        (LabelAsked(i) /\ LabelAnswer(i) # Absent) =>
            LET rec == Returned(i).value
                al == calls[i][4]
            IN /\ Returned(i).kind = "return"
               /\ DOMAIN rec = {"term_id", "label", "definition", "synonyms", "namespace"}
               /\ rec.term_id = Arg(i).term_id
               /\ rec.label = LabelAnswer(i)[1]
               /\ rec.definition = calls[i][3].response
               /\ rec.synonyms = IF al.result = "unsupported" THEN <<>>
                                 ELSE al.response.names

C7_Witness ==
    \E i \in Slots :
        /\ LabelAsked(i) /\ LabelAnswer(i) # Absent
        /\ calls[i][4].result = "unsupported"
        /\ Returned(i).value.synonyms = <<>>
        /\ Returned(i).value.term_id = IdMondo
        /\ Returned(i).value.definition = Absent

\* C11: a negative n is not rejected and does not give the full set: the
\* result is the backend's sequence without its last |n| entries (empty when
\* |n| is at least its length), so its length is max(0, length - |n|), which
\* exceeds n.
C11_NegativeLimitDropsTail ==
    \A i \in Slots :
        (Answered(i) /\ Arg(i).n < 0) =>
            LET pairs == calls[i][3].response
                out == Returned(i)
                drop == 0 - Arg(i).n
            IN /\ out.kind = "return"
               /\ out.value.type = "list"
               /\ Len(out.value.items) = Max(0, Len(pairs) - drop)
               /\ Len(out.value.items) > Arg(i).n
               /\ Len(pairs) > 0 => out.value.items # pairs
               /\ \A k \in 1..Len(out.value.items) : out.value.items[k] = pairs[k]

C11_Witness ==
    \E i \in Slots :
        /\ Answered(i)
        /\ Arg(i).n = -1
        /\ Len(calls[i][3].response) = 2
        /\ Returned(i) = Return(PyList(<<calls[i][3].response[1]>>))
====
